---- MODULE Spec2Model ----
(***************************************************************************)
(* A model of the categorization-and-timeline pipeline of                  *)
(* categorize_parse_spechistory.py (class SpecHistoryParser).              *)
(*                                                                         *)
(* Python strings are modelled as sequences of one-character strings, so   *)
(* that substring tests, lower(), title(), slicing, formatting and parsing *)
(* are computed as the code computes them.                                 *)
(***************************************************************************)
EXTENDS Integers, Sequences, FiniteSets, TLC

VARIABLES
    pc,              \* position of the running procedure
    use_openai,      \* the flag self.use_openai
    md_files,        \* parse_all_files: the sorted directory listing
    ai_reply,        \* parse_all_files: what the service answered for the file
    idx,             \* parse_all_files: number of files the loop has handled
    sessions,        \* the list of assembled session records
    sorted_sessions, \* the list calculate_durations returns
    doc,             \* the document parse_all_files returns
    title,           \* categorize_session: argument
    content,         \* categorize_session: argument
    scores,          \* categorize_session: the local dict scores
    result           \* categorize_session: returned (category, confidence)

vars ==
    <<pc, use_openai, md_files, ai_reply, idx, sessions, sorted_sessions, doc,
      title, content, scores, result>>

-----------------------------------------------------------------------------
(* Bounds of the model.                                                    *)

\* the largest number of files in the history directory
MaxFiles == 3
\* the longest session list handed to calculate_durations on its own
MaxSessions == 3
\* the largest number of words in a title or a content given to
\* categorize_session on its own
MaxWords == 2

-----------------------------------------------------------------------------
(* Characters and strings.                                                 *)

LowerLetters == <<"a", "b", "c", "d", "e", "f", "g", "h", "i", "j", "k", "l", "m", "n", "o", "p", "q", "r", "s", "t", "u", "v", "w", "x", "y", "z">>
UpperLetters == <<"A", "B", "C", "D", "E", "F", "G", "H", "I", "J", "K", "L", "M", "N", "O", "P", "Q", "R", "S", "T", "U", "V", "W", "X", "Y", "Z">>
DigitChars == <<"0", "1", "2", "3", "4", "5", "6", "7", "8", "9">>

Range(s) == {s[i] : i \in 1..Len(s)}

\* the position of character c in the sequence s
IndexOf(s, c) == CHOOSE i \in 1..Len(s) : s[i] = c

LowerOf == [c \in Range(UpperLetters) |-> LowerLetters[IndexOf(UpperLetters, c)]]
UpperOf == [c \in Range(LowerLetters) |-> UpperLetters[IndexOf(LowerLetters, c)]]

IsLetter(c) == c \in Range(LowerLetters) \cup Range(UpperLetters)

\* str.lower() on one character and on a string
LowerChar(c) == IF c \in DOMAIN LowerOf THEN LowerOf[c] ELSE c
UpperChar(c) == IF c \in DOMAIN UpperOf THEN UpperOf[c] ELSE c
lower(s) == [i \in 1..Len(s) |-> LowerChar(s[i])]

\* str.title(): a letter that follows a letter is lowercased, any other
\* letter is uppercased, other characters are kept
TitleCase(s) ==
    [i \in 1..Len(s) |->
        IF i > 1 /\ IsLetter(s[i - 1]) THEN LowerChar(s[i]) ELSE UpperChar(s[i])]

\* str.replace(a, b) for single characters a and b
ReplaceChar(s, a, b) == [i \in 1..Len(s) |-> IF s[i] = a THEN b ELSE s[i]]

\* the Python test `k in t` on strings
In(k, t) ==
    \E i \in 0..(Len(t) - Len(k)) : \A j \in 1..Len(k) : t[i + j] = k[j]

\* the Python slice s[:n]
Prefix(s, n) == SubSeq(s, 1, IF n < Len(s) THEN n ELSE Len(s))

-----------------------------------------------------------------------------
(* The category table built by __init__.                                   *)

categories == [
  plan |-> [keywords |-> <<
        <<"h", "o", "w", " ", "t", "o">>,
        <<"a", "p", "p", "r", "o", "a", "c", "h">>,
        <<"s", "t", "r", "a", "t", "e", "g", "y">>,
        <<"p", "l", "a", "n">>,
        <<"d", "e", "s", "i", "g", "n">>,
        <<"a", "r", "c", "h", "i", "t", "e", "c", "t", "u", "r", "e">>,
        <<"f", "i", "n", "d", "i", "n", "g">>>>,
      color |-> "#3B82F6", priority |-> 1],
  codegen |-> [keywords |-> <<
        <<"c", "r", "e", "a", "t", "e">>,
        <<"i", "m", "p", "l", "e", "m", "e", "n", "t">>,
        <<"a", "d", "d">>,
        <<"b", "u", "i", "l", "d">>,
        <<"i", "n", "t", "e", "g", "r", "a", "t", "e">>,
        <<"g", "e", "n", "e", "r", "a", "t", "e">>,
        <<"c", "o", "n", "s", "t", "r", "u", "c", "t">>>>,
      color |-> "#10B981", priority |-> 2],
  refactor |-> [keywords |-> <<
        <<"r", "e", "f", "a", "c", "t", "o", "r">>,
        <<"i", "m", "p", "r", "o", "v", "e">>,
        <<"c", "l", "e", "a", "n">>,
        <<"o", "r", "g", "a", "n", "i", "z", "e">>,
        <<"r", "e", "o", "r", "g", "a", "n", "i", "z", "e">>,
        <<"r", "e", "n", "a", "m", "e">>,
        <<"m", "o", "v", "e">>>>,
      color |-> "#8B5CF6", priority |-> 3],
  debug |-> [keywords |-> <<
        <<"e", "r", "r", "o", "r">>,
        <<"w", "h", "y">>,
        <<"i", "s", "s", "u", "e">>,
        <<"f", "i", "x">>,
        <<"f", "i", "x", "i", "n", "g">>,
        <<"b", "u", "g">>,
        <<"p", "r", "o", "b", "l", "e", "m">>,
        <<"s", "y", "n", "t", "a", "x", " ", "e", "r", "r", "o", "r">>>>,
      color |-> "#F59E0B", priority |-> 4],
  feature |-> [keywords |-> <<
        <<"c", "h", "a", "n", "g", "e">>,
        <<"u", "p", "d", "a", "t", "e">>,
        <<"a", "l", "l", "o", "w">>,
        <<"a", "d", "j", "u", "s", "t">>,
        <<"s", "e", "l", "e", "c", "t", "i", "n", "g">>,
        <<"t", "r", "i", "g", "g", "e", "r">>,
        <<"s", "h", "o", "w">>>>,
      color |-> "#EC4899", priority |-> 5],
  review |-> [keywords |-> <<
        <<"u", "n", "d", "e", "r", "s", "t", "a", "n", "d", "i", "n", "g">>,
        <<"w", "h", "a", "t">>,
        <<"e", "x", "p", "l", "a", "i", "n">>,
        <<"c", "r", "i", "t", "i", "q", "u", "e">>,
        <<"c", "o", "d", "e", " ", "r", "e", "v", "i", "e", "w">>>>,
      color |-> "#F97316", priority |-> 6],
  meta |-> [keywords |-> <<
        <<"c", "o", "m", "m", "i", "t">>,
        <<"g", "i", "t">>,
        <<"m", "e", "r", "g", "e">>,
        <<"a", "b", "o", "r", "t">>,
        <<"b", "r", "a", "n", "c", "h">>>>,
      color |-> "#6366F1", priority |-> 7],
  config |-> [keywords |-> <<
        <<"i", "n", "p", "u", "t">>,
        <<"p", "a", "r", "a", "m", "e", "t", "e", "r">>,
        <<"r", "e", "q", "u", "i", "r", "e", "m", "e", "n", "t", "s">>,
        <<"s", "e", "t", "t", "i", "n", "g", "s">>,
        <<"c", "o", "n", "f", "i", "g", "u", "r", "e">>>>,
      color |-> "#06B6D4", priority |-> 8]]

\* the iteration order of the dict self.categories (its insertion order)
CategoryOrder ==
    <<"plan", "codegen", "refactor", "debug", "feature", "review", "meta", "config">>

CategorySet == Range(CategoryOrder)

-----------------------------------------------------------------------------
(* categorize_session                                                      *)

\* the weight of a keyword found in the title, and of one found elsewhere
TitleWeight == 3
TextWeight == 1
\* the least winning score that gives confidence "high"
HighScore == 3

\* KeywordPoints with the title weight added to the generic point
KeywordPoints_Additive(keyword, text, ltitle) ==
    IF In(keyword, text)
    THEN IF In(keyword, ltitle) THEN TitleWeight + TextWeight ELSE TextWeight
    ELSE 0

\* what one keyword adds to the score of its category (the body of the
\* inner loop)
KeywordPoints(keyword, text, ltitle) ==
    IF In(keyword, text)
    THEN IF In(keyword, ltitle) THEN TitleWeight ELSE TextWeight
    ELSE 0

\* the inner loop: the score of one category's keyword list
RECURSIVE ScoreKeywords(_, _, _, _)
ScoreKeywords(keywords, text, ltitle, score) ==
    IF keywords = <<>>
    THEN score
    ELSE ScoreKeywords(Tail(keywords), text, ltitle,
                       score + KeywordPoints(Head(keywords), text, ltitle))

\* the dict scores after the outer loop
Scores(t, c) ==
    LET text == lower(t \o <<" ">> \o c)
    IN [cat \in CategorySet |->
            ScoreKeywords(categories[cat].keywords, text, lower(t), 0)]

\* Better with ties going to the later key
Better_LastWins(new, best) == new >= best

\* one comparison of max(scores, key=scores.get): a later key replaces the
\* best one only when its score is strictly greater
Better(new, best) == new > best

\* max(scores, key=scores.get) over the keys in iteration order
RECURSIVE MaxKey(_, _, _)
MaxKey(order, sc, best) ==
    IF order = <<>>
    THEN best
    ELSE MaxKey(Tail(order), sc,
                IF Better(sc[Head(order)], sc[best])
                THEN Head(order) ELSE best)

\* max(scores.values())
MaxValue(sc) ==
    CHOOSE m \in {sc[cat] : cat \in CategorySet} :
        \A cat \in CategorySet : sc[cat] <= m

\* Confidence with the "high" threshold exclusive
Confidence_Exclusive(max_score) ==
    IF max_score > HighScore THEN "high"
    ELSE IF max_score >= 1 THEN "medium" ELSE "low"

Confidence(max_score) ==
    IF max_score >= HighScore THEN "high"
    ELSE IF max_score >= 1 THEN "medium" ELSE "low"

categorize_session(t, c) ==
    LET sc == Scores(t, c)
    IN IF MaxValue(sc) > 0
       THEN LET category == MaxKey(Tail(CategoryOrder), sc, Head(CategoryOrder))
            IN [category |-> category, confidence |-> Confidence(sc[category])]
       ELSE [category |-> "codegen", confidence |-> "low"]

-----------------------------------------------------------------------------
(* categorize_session called on its own: the title and the content are    *)
(* texts of at most MaxWords words of two small vocabularies, or the title *)
(* and content of the documented scenario.                                 *)

TitleWords == {
    <<"P", "l", "a", "n">>,
    <<"F", "i", "x">>,
    <<"h", "o", "w">>}

Words == {
    <<"P", "l", "a", "n">>,
    <<"f", "i", "x">>,
    <<"f", "i", "x", "i", "n", "g">>,
    <<"h", "o", "w">>,
    <<"t", "o">>,
    <<"a", "d", "d">>}

\* " ".join(ws)
RECURSIVE Join(_)
Join(ws) ==
    IF ws = <<>> THEN <<>>
    ELSE IF Len(ws) = 1 THEN ws[1]
    ELSE ws[1] \o <<" ">> \o Join(Tail(ws))

\* the texts of at most MaxWords words of the vocabulary V
Texts(V) == {Join(ws) : ws \in UNION {[1..k -> V] : k \in 0..MaxWords}}

ScenarioTitle == <<"H", "o", "w", " ", "T", "o", " ", "P", "l", "a", "n", " ", "T", "h", "e", " ", "A", "p", "p", "r", "o", "a", "c", "h">>
ScenarioContent == <<"I", " ", "n", "e", "e", "d", " ", "a", " ", "s", "t", "r", "a", "t", "e", "g", "y", " ", "f", "o", "r", " ", "t", "h", "i", "s">>

NoResult == [category |-> "", confidence |-> ""]
NoScores == [cat \in CategorySet |-> 0]
NoDoc == [sessions |-> <<>>]
\* no answer of the service: the call was not made or it failed
NoReply == [parsed |-> FALSE, data |-> <<>>]

InitCat ==
    /\ pc = "call"
    /\ \E arg \in (Texts(TitleWords) \X Texts(Words)) \cup {<<ScenarioTitle, ScenarioContent>>} :
           title = arg[1] /\ content = arg[2]
    /\ result = NoResult
    /\ scores = NoScores
    /\ md_files = <<>>
    /\ use_openai = FALSE
    /\ ai_reply = NoReply
    /\ idx = 0
    /\ sessions = <<>>
    /\ sorted_sessions = <<>>
    /\ doc = NoDoc

Categorize ==
    /\ pc = "call"
    /\ scores' = Scores(title, content)
    /\ result' = categorize_session(title, content)
    /\ pc' = "return"
    /\ UNCHANGED <<use_openai, md_files, ai_reply, idx, sessions, sorted_sessions, doc,
                   title, content>>

NextCat == Categorize

SpecCat == InitCat /\ [][NextCat]_vars

-----------------------------------------------------------------------------
(* Dates and times: datetime.fromisoformat, datetime.isoformat and the     *)
(* difference of two datetimes, as the code uses them.                     *)

\* the characters of the strings in code point order (the order Python
\* compares strings by)
CodePointOrder ==
    <<" ", "+", "-", ".">> \o DigitChars \o <<":">> \o UpperLetters
        \o <<"_">> \o LowerLetters

CodePoint == [c \in Range(CodePointOrder) |-> IndexOf(CodePointOrder, c)]

\* the Python comparison a < b of two strings
RECURSIVE StrLess(_, _)
StrLess(a, b) ==
    IF b = <<>> THEN FALSE
    ELSE IF a = <<>> THEN TRUE
    ELSE IF Head(a) = Head(b) THEN StrLess(Tail(a), Tail(b))
    ELSE CodePoint[Head(a)] < CodePoint[Head(b)]

IsDigits(s) == \A i \in 1..Len(s) : s[i] \in Range(DigitChars)

DigitValue == [c \in Range(DigitChars) |-> IndexOf(DigitChars, c) - 1]

\* int(s) for a string of decimal digits
RECURSIVE ToInt(_)
ToInt(s) ==
    IF s = <<>> THEN 0
    ELSE 10 * ToInt(SubSeq(s, 1, Len(s) - 1)) + DigitValue[s[Len(s)]]

\* n written with w decimal digits, zero padded
Pad(n, w) == [i \in 1..w |-> DigitChars[((n \div (10 ^ (w - i))) % 10) + 1]]

IsLeap(y) == y % 4 = 0 /\ (y % 100 # 0 \/ y % 400 = 0)

DaysInMonth(y, m) ==
    IF m = 2 THEN (IF IsLeap(y) THEN 29 ELSE 28)
    ELSE IF m \in {4, 6, 9, 11} THEN 30 ELSE 31

RECURSIVE DaysBeforeMonth(_, _)
DaysBeforeMonth(y, m) ==
    IF m = 1 THEN 0 ELSE DaysBeforeMonth(y, m - 1) + DaysInMonth(y, m - 1)

\* the proleptic Gregorian ordinal of a date (0001-01-01 is day 1)
Ordinal(y, m, d) ==
    LET p == y - 1
    IN p * 365 + p \div 4 - p \div 100 + p \div 400 + DaysBeforeMonth(y, m) + d

\* the field values a datetime accepts
ValidDateTime(dt) ==
    /\ dt.year \in 1..9999
    /\ dt.month \in 1..12
    /\ dt.day \in 1..DaysInMonth(dt.year, dt.month)
    /\ dt.hour \in 0..23
    /\ dt.minute \in 0..59
    /\ dt.second \in 0..59

\* datetime.fromisoformat of "YYYY-MM-DDTHH:MM:SS+00:00", given as the
\* string that ends in "Z" before .replace("Z", "+00:00"): the fields read
\* from their positions (the datetime is valid only under ValidDateTime)
fromisoformat(s) ==
    [year   |-> ToInt(SubSeq(s, 1, 4)),
     month  |-> ToInt(SubSeq(s, 6, 7)),
     day    |-> ToInt(SubSeq(s, 9, 10)),
     hour   |-> ToInt(SubSeq(s, 12, 13)),
     minute |-> ToInt(SubSeq(s, 15, 16)),
     second |-> ToInt(SubSeq(s, 18, 19))]

\* dt.isoformat().replace("+00:00", "Z") for a UTC datetime
isoformat(dt) ==
    Pad(dt.year, 4) \o <<"-">> \o Pad(dt.month, 2) \o <<"-">> \o Pad(dt.day, 2)
        \o <<"T">> \o Pad(dt.hour, 2) \o <<":">> \o Pad(dt.minute, 2)
        \o <<":">> \o Pad(dt.second, 2) \o <<"Z">>

\* (b - a).total_seconds() for two UTC datetimes: the timedelta b - a holds
\* the difference in days and the difference in seconds of the day
TotalSeconds(a, b) ==
    LET days(dt) == Ordinal(dt.year, dt.month, dt.day)
        seconds(dt) == dt.hour * 3600 + dt.minute * 60 + dt.second
    IN (days(b) - days(a)) * 86400 + (seconds(b) - seconds(a))

\* int(x / 60): the quotient truncated towards zero
IntDiv60(x) == IF x >= 0 THEN x \div 60 ELSE -((-x) \div 60)

-----------------------------------------------------------------------------
(* calculate_durations                                                     *)

\* the cap on a gap, and the duration given to the last session (minutes)
MaxGap == 240
LastDuration == 30

\* sorted(sessions, key=lambda x: x["startTime"]): a stable sort, so each
\* record goes behind the records already placed whose key is not greater
RECURSIVE InsertByStartTime(_, _)
InsertByStartTime(placed, s) ==
    IF placed = <<>> THEN <<s>>
    ELSE IF StrLess(s.startTime, Head(placed).startTime)
         THEN <<s>> \o placed
         ELSE <<Head(placed)>> \o InsertByStartTime(Tail(placed), s)

RECURSIVE SortLoop(_, _)
SortLoop(placed, rest) ==
    IF rest = <<>> THEN placed
    ELSE SortLoop(InsertByStartTime(placed, Head(rest)), Tail(rest))

\* sorted_by_startTime sorting in descending order
sorted_by_startTime_Descending(list) ==
    LET s == SortLoop(<<>>, list)
    IN [i \in 1..Len(s) |-> s[Len(s) + 1 - i]]

\* sorted_by_startTime leaving the list in the order given
sorted_by_startTime_Unsorted(list) == list

sorted_by_startTime(list) == SortLoop(<<>>, list)

min(a, b) == IF a <= b THEN a ELSE b

\* GapMinutes without the cap
GapMinutes_Uncapped(current, next) ==
    IntDiv60(TotalSeconds(fromisoformat(current.startTime),
                          fromisoformat(next.startTime)))

\* the gap in whole minutes from one record to the next, capped
GapMinutes(current, next) ==
    LET current_time == fromisoformat(current.startTime)
        next_time == fromisoformat(next.startTime)
        duration_minutes == IntDiv60(TotalSeconds(current_time, next_time))
    IN min(duration_minutes, MaxGap)

\* DurationAt giving the last session no time
DurationAt_LastIsZero(sorted, i) ==
    IF i < Len(sorted)
    THEN GapMinutes(sorted[i], sorted[i + 1])
    ELSE 0

\* the body of the loop for the (1-based) position i of the sorted list
DurationAt(sorted, i) ==
    IF i < Len(sorted)
    THEN GapMinutes(sorted[i], sorted[i + 1])
    ELSE LastDuration

\* the record s with the key "duration" set to d
WithDuration(s, d) ==
    [category |-> s.category, title |-> s.title, startTime |-> s.startTime,
     confidence |-> s.confidence, filename |-> s.filename,
     preview |-> s.preview, duration |-> d]

calculate_durations(list) ==
    LET sorted == sorted_by_startTime(list)
    IN [i \in 1..Len(sorted) |-> WithDuration(sorted[i], DurationAt(sorted, i))]

-----------------------------------------------------------------------------
(* calculate_durations called on its own: any list of at most MaxSessions  *)
(* records whose start times are drawn, in any order and with repetition,  *)
(* from SampleTimes.                                                       *)

T0900 == <<"2", "0", "2", "4", "-", "0", "1", "-", "1", "5", "T", "0", "9", ":", "0", "0", ":", "0", "0", "Z">>
T0945 == <<"2", "0", "2", "4", "-", "0", "1", "-", "1", "5", "T", "0", "9", ":", "4", "5", ":", "0", "0", "Z">>
T1300 == <<"2", "0", "2", "4", "-", "0", "1", "-", "1", "5", "T", "1", "3", ":", "0", "0", ":", "0", "0", "Z">>
TFeb28 == <<"2", "0", "2", "4", "-", "0", "2", "-", "2", "8", "T", "2", "3", ":", "3", "0", ":", "0", "0", "Z">>
TFeb29 == <<"2", "0", "2", "4", "-", "0", "2", "-", "2", "9", "T", "0", "0", ":", "1", "5", ":", "0", "0", "Z">>
TMar01 == <<"2", "0", "2", "4", "-", "0", "3", "-", "0", "1", "T", "0", "0", ":", "1", "5", ":", "0", "0", "Z">>

SampleTimes == {T0900, T0945, T1300, TFeb28, TFeb29, TMar01}

\* the i-th record of a drawn list
SampleSession(i, t) ==
    [category |-> IF i % 2 = 1 THEN "plan" ELSE "debug",
     title |-> <<"S">> \o Pad(i, 1),
     startTime |-> t,
     confidence |-> "medium",
     filename |-> Pad(i, 1) \o <<".", "m", "d">>,
     preview |-> <<>>]

InitDur ==
    /\ pc = "call"
    /\ \E n \in 0..MaxSessions : \E ts \in [1..n -> SampleTimes] :
           sessions = [i \in 1..n |-> SampleSession(i, ts[i])]
    /\ sorted_sessions = <<>>
    /\ md_files = <<>>
    /\ use_openai = FALSE
    /\ ai_reply = NoReply
    /\ idx = 0
    /\ doc = NoDoc
    /\ title = <<>>
    /\ content = <<>>
    /\ scores = NoScores
    /\ result = NoResult

CalculateDurations ==
    /\ pc = "call"
    /\ sorted_sessions' = calculate_durations(sessions)
    /\ pc' = "return"
    /\ UNCHANGED <<use_openai, md_files, ai_reply, idx, sessions, doc, title, content,
                   scores, result>>

NextDur == CalculateDurations

SpecDur == InitDur /\ [][NextDur]_vars

-----------------------------------------------------------------------------
(* Optional values: None is the empty sequence, a value x is <<x>>.        *)

None == <<>>
Some(x) == <<x>>

-----------------------------------------------------------------------------
(* parse_filename                                                          *)

\* the fixed part of the pattern (\d{4}-\d{2}-\d{2})_(\d{2}-\d{2})Z-
PrefixMatches(filename) ==
    /\ Len(filename) >= 18
    /\ IsDigits(SubSeq(filename, 1, 4)) /\ filename[5] = "-"
    /\ IsDigits(SubSeq(filename, 6, 7)) /\ filename[8] = "-"
    /\ IsDigits(SubSeq(filename, 9, 10)) /\ filename[11] = "_"
    /\ IsDigits(SubSeq(filename, 12, 13)) /\ filename[14] = "-"
    /\ IsDigits(SubSeq(filename, 15, 16))
    /\ filename[17] = "Z" /\ filename[18] = "-"

\* the positions at which the group (.+) can end: at least one character
\* from position 19 on, followed by ".md"
SlugEnds(filename) ==
    {e \in 19..(Len(filename) - 3) :
        SubSeq(filename, e + 1, e + 3) = <<".", "m", "d">>}

\* re.match succeeds (it is anchored at the start only)
Matches(filename) == PrefixMatches(filename) /\ SlugEnds(filename) # {}

\* the greedy group (.+) ends as late as it can
TitleSlug(filename) ==
    LET e == CHOOSE x \in SlugEnds(filename) : \A y \in SlugEnds(filename) : y <= x
    IN SubSeq(filename, 19, e)

\* f"{date_str}T{time_str.replace('-', ':')}:00Z"
TimestampStr(filename) ==
    SubSeq(filename, 1, 10) \o <<"T">>
        \o ReplaceChar(SubSeq(filename, 12, 16), "-", ":") \o <<":", "0", "0", "Z">>

\* parse_filename: raised is TRUE when it raises ValueError (no match, or
\* fromisoformat rejects the date or the time)
parse_filename(filename) ==
    IF ~Matches(filename)
    THEN [raised |-> TRUE, timestamp |-> None, title |-> <<>>]
    ELSE LET timestamp == fromisoformat(TimestampStr(filename))
         IN IF ~ValidDateTime(timestamp)
            THEN [raised |-> TRUE, timestamp |-> None, title |-> <<>>]
            ELSE [raised |-> FALSE,
                  timestamp |-> Some(timestamp),
                  title |-> TitleCase(ReplaceChar(TitleSlug(filename), "-", " "))]

-----------------------------------------------------------------------------
(* _categorize_with_openai                                                 *)

\* a JSON string, and a JSON array (an unhashable Python list)
JsonString(s) == [type |-> "string", value |-> s]
JsonArray == [type |-> "array", value |-> ""]

\* `data["category"] not in self.categories.keys()`; hashing a list raises
\* TypeError
NotInCategories(v) == ~(v.type = "string" /\ v.value \in CategorySet)
MembershipRaises(v) == v.type = "array"

\* NormalizedCategory without the normalization
NormalizedCategory_Kept(v) == v.value

\* the default category an unknown category is replaced by
NormalizedCategory(v) == IF NotInCategories(v) THEN "codegen" ELSE v.value

\* _categorize_with_openai giving no result for an unknown category
_categorize_with_openai_RejectsUnknown(flag, reply) ==
    IF ~flag THEN None
    ELSE IF ~reply.parsed THEN None
    ELSE IF ~({"category", "title", "preview"} \subseteq DOMAIN reply.data) THEN None
    ELSE IF MembershipRaises(reply.data.category) THEN None
    ELSE IF NotInCategories(reply.data.category) THEN None
    ELSE Some([category |-> reply.data.category.value,
               title |-> reply.data.title,
               preview |-> reply.data.preview])

\* _categorize_with_openai, given the flag and the outcome reply of the
\* service call and json.loads: parsed is FALSE when the SDK or the key is
\* missing, the call raises or the text is not a JSON object; data is the
\* parsed object. The result is None or the dict data.
_categorize_with_openai(flag, reply) ==
    IF ~flag THEN None
    ELSE IF ~reply.parsed THEN None
    ELSE IF ~({"category", "title", "preview"} \subseteq DOMAIN reply.data) THEN None
    ELSE IF MembershipRaises(reply.data.category) THEN None
    ELSE Some([category |-> NormalizedCategory(reply.data.category),
               title |-> reply.data.title,
               preview |-> reply.data.preview])

-----------------------------------------------------------------------------
(* parse_all_files                                                         *)

\* the longest content kept whole as a preview, and the number of its
\* characters kept in front of "..." otherwise
PreviewMax == 120
PreviewKeep == 117

\* content[:117] + "..." if len(content) > 120 else content
Preview(c) ==
    IF Len(c) > PreviewMax THEN Prefix(c, PreviewKeep) \o <<".", ".", ".">> ELSE c

\* the session dict built by one iteration of the loop; keyword is the
\* value of categorize_session(t, c), which is used on the else branch only
Session(filename, timestamp, t, c, ai_summary, keyword) ==
    LET ai == ai_summary[1]
    IN [category   |-> IF ai_summary # None THEN ai.category ELSE keyword.category,
        title      |-> IF ai_summary # None THEN ai.title ELSE t,
        startTime  |-> isoformat(timestamp),
        confidence |-> IF ai_summary # None THEN "high" ELSE keyword.confidence,
        filename   |-> filename,
        preview    |-> IF ai_summary # None THEN ai.preview ELSE Preview(c)]

\* sum(s["duration"] for s in list)
RECURSIVE SumDurations(_)
SumDurations(list) ==
    IF list = <<>> THEN 0 ELSE Head(list).duration + SumDurations(Tail(list))

\* [s for s in sessions if s["category"] == cat]
CatSessions(list, cat) == SelectSeq(list, LAMBDA s : s.category = cat)

\* round((cat_duration / total_duration) * 100, 1) if total_duration > 0
\* else 0, in tenths of a percent. The quotient is a float: away from a tie
\* the result is the nearest tenth, and on an exact tie the rounding error of
\* the float decides between the two neighbours.
Percentages(cat_duration, total_duration) ==
    IF total_duration > 0
    THEN LET n == cat_duration * 1000
             q == n \div total_duration
             r == n % total_duration
         IN IF 2 * r < total_duration THEN {q}
            ELSE IF 2 * r > total_duration THEN {q + 1}
            ELSE {q, q + 1}
    ELSE {0}

\* the categories that get an entry in category_stats
EmittedCategories(list) == {cat \in CategorySet : CatSessions(list, cat) # <<>>}

\* TimeRange with the end taken from the first session
TimeRange_EndIsFirst(list) ==
    [start |-> IF list # <<>> THEN Some(list[1].startTime) ELSE None,
     end   |-> IF list # <<>> THEN Some(list[1].startTime) ELSE None]

\* metadata.timeRange
TimeRange(list) ==
    [start |-> IF list # <<>> THEN Some(list[1].startTime) ELSE None,
     end   |-> IF list # <<>> THEN Some(list[Len(list)].startTime) ELSE None]

\* the returned dict, for the percentages pct chosen by the float rounding
\* (metadata.generated, the wall clock time, is left out)
Document(list, pct) ==
    LET total_duration == SumDurations(list)
    IN [sessions |-> list,
        totalDuration |-> total_duration,
        categories |->
            [cat \in EmittedCategories(list) |->
                [duration |-> SumDurations(CatSessions(list, cat)),
                 percentage |-> pct[cat],
                 sessions |-> Len(CatSessions(list, cat)),
                 color |-> categories[cat].color]],
        metadata |-> [totalSessions |-> Len(list), timeRange |-> TimeRange(list)]]

-----------------------------------------------------------------------------
(* The inputs of parse_all_files: the directory, the content read from     *)
(* each file and the answer of the classification service.                 *)

FileFix ==
    <<"2", "0", "2", "4", "-", "0", "1", "-", "1", "5", "_",
     "0", "9", "-", "3", "0", "Z", "-",
     "f", "i", "x", "-", "l", "o", "g", "i", "n", "-", "b", "u", "g", ".", "m", "d">>
FilePlan ==
    <<"2", "0", "2", "4", "-", "0", "1", "-", "1", "5", "_",
     "0", "9", "-", "3", "0", "Z", "-",
     "h", "o", "w", "-", "t", "o", "-", "p", "l", "a", "n", "-", "t", "h", "e", "-", "a", "p", "p", "r", "o", "a", "c", "h", ".", "m", "d">>
FileNoZ ==
    <<"2", "0", "2", "4", "-", "0", "1", "-", "1", "5", "_",
     "1", "0", "-", "0", "0", "-", "s", "t", "a", "n", "d", "u", "p", ".", "m", "d">>
FileNotes ==
    <<"2", "0", "2", "4", "-", "0", "1", "-", "1", "5", "_",
     "1", "0", "-", "1", "5", "Z", "-",
     "n", "o", "t", "e", "s", ".", "m", "d">>
File2fa ==
    <<"2", "0", "2", "4", "-", "0", "1", "-", "1", "6", "_",
     "0", "8", "-", "0", "0", "Z", "-",
     "2", "f", "a", "-", "s", "e", "t", "u", "p", ".", "m", "d">>
FileFeb30 ==
    <<"2", "0", "2", "4", "-", "0", "2", "-", "3", "0", "_",
     "0", "9", "-", "0", "0", "Z", "-",
     "a", "d", "d", "-", "t", "e", "s", "t", "s", ".", "m", "d">>

\* the names glob("*.md") can find
FileNames == {FileFix, FilePlan, FileNoZ, FileNotes, File2fa, FileFeb30}

\* sorted(...) of a set of names: Path objects of one directory compare as
\* their names do
RECURSIVE SortedNames(_)
SortedNames(S) ==
    IF S = {} THEN <<>>
    ELSE LET first == CHOOSE x \in S : \A y \in S \ {x} : StrLess(x, y)
         IN <<first>> \o SortedNames(S \ {first})

\* s followed by as many characters ch as make the length n
Fill(s, ch, n) == s \o [i \in 1..(n - Len(s)) |-> ch]

ContentEmpty == <<>>
ContentWhy120 == Fill(<<"w", "h", "y", " ", "i", "s", " ", "t", "h", "i", "s", " ">>, "z", 120)
ContentFix121 == Fill(<<"f", "i", "x", " ", "t", "h", "e", " ", "b", "u", "g", " ">>, "z", 121)

\* what read_file_content can return
Contents == {ContentEmpty, ScenarioContent, ContentWhy120, ContentFix121}

PreviewShort == <<"E", "x", "p", "l", "a", "i", "n", " ", "t", "h", "e", " ", "p", "a", "r", "s", "e", "r">>
PreviewLong == Fill(<<"S", "u", "m", "m", "a", "r", "y", " ">>, "s", 121)

ReplyMissingPreview ==
    [parsed |-> TRUE,
     data |-> [category |-> JsonString("debug"), title |-> <<"F", "i", "x", " ", "L", "o", "g", "i", "n">>]]
ReplyReview ==
    [parsed |-> TRUE,
     data |-> [category |-> JsonString("review"),
               title |-> <<"E", "x", "p", "l", "a", "i", "n", " ", "P", "a", "r", "s", "e", "r">>,
               preview |-> PreviewShort]]
ReplyUnknown ==
    [parsed |-> TRUE,
     data |-> [category |-> JsonString("unknown_type"),
               title |-> <<"M", "i", "s", "c">>,
               preview |-> PreviewLong]]
ReplyArray ==
    [parsed |-> TRUE,
     data |-> [category |-> JsonArray,
               title |-> <<"M", "i", "s", "c">>,
               preview |-> PreviewShort]]

\* what the service call and json.loads can yield
Replies == {NoReply, ReplyMissingPreview, ReplyReview, ReplyUnknown, ReplyArray}

\* parse_filename and categorize_session on the inputs above, each
\* evaluated once
ParsedName == [f \in FileNames |-> parse_filename(f)]
FileTitles == {ParsedName[f].title : f \in FileNames}
KeywordResult == [t \in FileTitles, c \in Contents |-> categorize_session(t, c)]

Init ==
    /\ pc = "loop"
    /\ use_openai \in BOOLEAN
    /\ \E S \in SUBSET FileNames :
           /\ Cardinality(S) <= MaxFiles
           /\ md_files = SortedNames(S)
    /\ idx = 0
    /\ sessions = <<>>
    /\ sorted_sessions = <<>>
    /\ doc = NoDoc
    /\ ai_reply = NoReply
    /\ title = <<>>
    /\ content = <<>>
    /\ scores = NoScores
    /\ result = NoResult

\* SkipFile leaving the loop at the first error
SkipFile_Aborts ==
    /\ pc = "loop"
    /\ idx < Len(md_files)
    /\ ParsedName[md_files[idx + 1]].raised
    /\ idx' = Len(md_files)
    /\ UNCHANGED <<pc, use_openai, md_files, ai_reply, sessions, sorted_sessions, doc,
                   title, content, scores, result>>

\* one iteration of the loop over md_files whose parse_filename raises: the
\* handler prints the error and the loop goes on
SkipFile ==
    /\ pc = "loop"
    /\ idx < Len(md_files)
    /\ ParsedName[md_files[idx + 1]].raised
    /\ idx' = idx + 1
    /\ UNCHANGED <<pc, use_openai, md_files, ai_reply, sessions, sorted_sessions, doc,
                   title, content, scores, result>>

\* one iteration of the loop that appends a session
ParseFile ==
    /\ pc = "loop"
    /\ idx < Len(md_files)
    /\ LET filename == md_files[idx + 1]
           parsed == ParsedName[filename]
       IN /\ ~parsed.raised
          /\ \E c \in Contents :
             \E reply \in (IF use_openai THEN Replies ELSE {NoReply}) :
                LET ai_summary == _categorize_with_openai(use_openai, reply)
                IN /\ title' = parsed.title
                   /\ content' = c
                   /\ ai_reply' = reply
                   /\ sessions' = Append(sessions,
                          Session(filename, parsed.timestamp[1], parsed.title, c,
                                  ai_summary, KeywordResult[parsed.title, c]))
    /\ idx' = idx + 1
    /\ UNCHANGED <<pc, use_openai, md_files, sorted_sessions, doc, scores, result>>

\* after the loop: sessions = self.calculate_durations(sessions)
CalcDurations ==
    /\ pc = "loop"
    /\ idx = Len(md_files)
    /\ sorted_sessions' = calculate_durations(sessions)
    /\ pc' = "stats"
    /\ UNCHANGED <<use_openai, md_files, ai_reply, idx, sessions, doc, title, content,
                   scores, result>>

\* the statistics and the returned dict
BuildDocument ==
    /\ pc = "stats"
    /\ LET emitted == EmittedCategories(sorted_sessions)
           choices == [cat \in emitted |->
                          Percentages(SumDurations(CatSessions(sorted_sessions, cat)),
                                      SumDurations(sorted_sessions))]
       IN \E pct \in [emitted -> UNION {choices[cat] : cat \in emitted}] :
             /\ \A cat \in emitted : pct[cat] \in choices[cat]
             /\ doc' = Document(sorted_sessions, pct)
    /\ pc' = "done"
    /\ UNCHANGED <<use_openai, md_files, ai_reply, idx, sessions, sorted_sessions,
                   title, content, scores, result>>

Next == SkipFile \/ ParseFile \/ CalcDurations \/ BuildDocument

Spec == Init /\ [][Next]_vars

\* the sum of f over S
RECURSIVE SumOver(_, _)
SumOver(f, S) ==
    IF S = {} THEN 0
    ELSE LET x == CHOOSE y \in S : TRUE IN f[x] + SumOver(f, S \ {x})

-----------------------------------------------------------------------------
(* Claims about parse_all_files (checked under Spec).                      *)

\* the names of FileNames that parse_filename rejects: one lacks the "Z" of
\* the pattern, one names the 30th of February
RejectedNames == {FileNoZ, FileFeb30}

\* the start time each accepted name stands for, and that time in minutes
\* after 2024-01-15T00:00Z
ExpectedStart ==
    (FileFix :> <<"2", "0", "2", "4", "-", "0", "1", "-", "1", "5", "T", "0", "9", ":", "3", "0", ":", "0", "0", "Z">>)
    @@ (FilePlan :> <<"2", "0", "2", "4", "-", "0", "1", "-", "1", "5", "T", "0", "9", ":", "3", "0", ":", "0", "0", "Z">>)
    @@ (FileNotes :> <<"2", "0", "2", "4", "-", "0", "1", "-", "1", "5", "T", "1", "0", ":", "1", "5", ":", "0", "0", "Z">>)
    @@ (File2fa :> <<"2", "0", "2", "4", "-", "0", "1", "-", "1", "6", "T", "0", "8", ":", "0", "0", ":", "0", "0", "Z">>)
ExpectedMinute ==
    (FileFix :> 570) @@ (FilePlan :> 570) @@ (FileNotes :> 615) @@ (File2fa :> 1920)

CategoryNames ==
    {"plan", "codegen", "refactor", "debug", "feature", "review", "meta", "config"}

\* the loop has handled a file and appended its session: title, content and
\* ai_reply are those of that file
AppendedLast ==
    /\ idx > 0
    /\ md_files[idx] \notin RejectedNames
    /\ sessions # <<>>
    /\ sessions[Len(sessions)].filename = md_files[idx]

LastSession == sessions[Len(sessions)]

\* the service answered with the three keys and a hashable category
WellFormedReply ==
    /\ use_openai
    /\ ai_reply.parsed
    /\ {"category", "title", "preview"} \subseteq DOMAIN ai_reply.data
    /\ ai_reply.data.category.type = "string"

\* C1: the durations of the entries of the categories mapping add up to
\* totalDuration, which is the sum of the durations of the sessions.
C1_CategoryDurationsSumToTotal ==
    pc = "done" =>
        /\ SumOver([cat \in DOMAIN doc.categories |-> doc.categories[cat].duration],
                   DOMAIN doc.categories) = doc.totalDuration
        /\ SumOver([i \in 1..Len(doc.sessions) |-> doc.sessions[i].duration],
                   1..Len(doc.sessions)) = doc.totalDuration

\* a document of three sessions, one with the coerced category of the
\* external path and one from the keyword path without any match
C1_Witness ==
    /\ pc = "done"
    /\ Len(doc.sessions) = 3
    /\ \E i \in 1..3 :
          /\ doc.sessions[i].title = <<"M", "i", "s", "c">>
          /\ doc.sessions[i].category = "codegen"
    /\ \E i \in 1..3 : doc.sessions[i].confidence = "low"
    /\ Cardinality(DOMAIN doc.categories) >= 2
    /\ doc.totalDuration = 45 + 240 + 30

\* C7: every session of the output has a preview of at most 120 characters
\* on either path; on the keyword path a content of more than 120
\* characters becomes its first 117 characters and "...", and a shorter one
\* is kept.
C7_PreviewAtMost120 ==
    /\ pc = "done" =>
          \A i \in 1..Len(doc.sessions) : Len(doc.sessions[i].preview) <= 120
    /\ (AppendedLast /\ ~WellFormedReply) =>
          LastSession.preview =
              IF Len(content) > 120
              THEN SubSeq(content, 1, 117) \o <<".", ".", ".">>
              ELSE content

C9_FailuresAreSkipped ==
    LET accepted(n) == {i \in 1..n : md_files[i] \notin RejectedNames}
    IN /\ \/ pc = "done"
          \/ ENABLED (SkipFile \/ ParseFile)
          \/ pc = "loop" /\ idx = Len(md_files)
          \/ ENABLED BuildDocument
       /\ Len(sessions) = Cardinality(accepted(idx))
       /\ \A i \in accepted(idx) :
             Cardinality({j \in 1..Len(sessions) :
                             sessions[j].filename = md_files[i]}) = 1
       /\ pc = "done" =>
             /\ idx = Len(md_files)
             /\ doc.metadata.totalSessions = Cardinality(accepted(Len(md_files)))
             /\ Len(doc.sessions) = doc.metadata.totalSessions

\* a run in which the first and the last file are rejected and the one
\* between them is not
C9_Witness ==
    /\ pc = "done"
    /\ md_files = <<FileNoZ, FileNotes, FileFeb30>>
    /\ doc.metadata.totalSessions = 1
    /\ doc.sessions[1].filename = FileNotes

\* a session without its duration
Assembled(s) ==
    [category |-> s.category, title |-> s.title, startTime |-> s.startTime,
     confidence |-> s.confidence, filename |-> s.filename, preview |-> s.preview]

\* C10: the sessions of the document are in ascending order of startTime
\* and are the assembled records, each once; timeRange holds the startTime
\* of the first and of the last of them, and None twice for no session.
C10_SessionsSortedAndTimeRange ==
    pc = "done" =>
        LET s == doc.sessions
            range == doc.metadata.timeRange
        IN /\ Len(s) = Len(sessions)
           /\ \A i \in 1..Len(sessions) :
                 Cardinality({j \in 1..Len(s) : Assembled(s[j]) = sessions[i]}) = 1
           /\ \A i \in 1..Len(s) : s[i].startTime = ExpectedStart[s[i].filename]
           /\ \A i \in 1..(Len(s) - 1) :
                 ExpectedMinute[s[i].filename] <= ExpectedMinute[s[i + 1].filename]
           /\ IF s = <<>>
              THEN range = [start |-> None, end |-> None]
              ELSE range = [start |-> Some(ExpectedStart[s[1].filename]),
                            end |-> Some(ExpectedStart[s[Len(s)].filename])]

\* a document of three sessions, two of them with the same startTime
C10_Witness ==
    /\ pc = "done"
    /\ Len(doc.sessions) = 3
    /\ doc.sessions[1].startTime = doc.sessions[2].startTime
    /\ doc.metadata.timeRange.start = Some(ExpectedStart[FileFix])
    /\ doc.metadata.timeRange.end = Some(ExpectedStart[File2fa])

\* C12: totalDuration is 0 exactly when there is no session, and at least
\* 30 otherwise; so every entry of the categories mapping is built with a
\* positive totalDuration, and its percentage is the rounded quotient (in
\* tenths of a percent), never the 0 of the zero-total branch.
C12_TotalIsZeroOnlyWhenEmpty ==
    pc = "done" =>
        LET total == doc.totalDuration
        IN /\ (total = 0) <=> (doc.sessions = <<>>)
           /\ (doc.sessions = <<>>) <=> (md_files = <<>> \/ sessions = <<>>)
           /\ doc.sessions # <<>> => total >= 30
           /\ doc.sessions = <<>> => DOMAIN doc.categories = {}
           /\ \A cat \in DOMAIN doc.categories :
                 LET entry == doc.categories[cat]
                     error == entry.percentage * total - entry.duration * 1000
                 IN /\ total > 0
                    /\ 2 * error <= total
                    /\ -(2 * error) <= total

\* two sessions that start at the same time: the entry of the first one's
\* category has duration 0 and percentage 0 although the total is 30
C12_Witness ==
    /\ pc = "done"
    /\ md_files = <<FileFix, FilePlan>>
    /\ doc.totalDuration = 30
    /\ DOMAIN doc.categories = {"debug", "plan"}
    /\ doc.categories["debug"].duration = 0
    /\ doc.categories["debug"].percentage = 0
    /\ doc.categories["plan"].percentage = 1000

-----------------------------------------------------------------------------
(* Claims about calculate_durations (checked under SpecDur).               *)

\* the sample times in minutes after 2024-01-01T00:00Z, from the calendar
MinuteOf ==
    (T0900 :> 20700) @@ (T0945 :> 20745) @@ (T1300 :> 20940)
        @@ (TFeb28 :> 84930) @@ (TFeb29 :> 84975) @@ (TMar01 :> 86415)

StartTimes(list) == [i \in 1..Len(list) |-> list[i].startTime]
Durations(list) == [i \in 1..Len(list) |-> list[i].duration]

\* C2: in the list returned, which is in ascending order of startTime, every
\* record but the last has duration min(240, minutes to the next record's
\* startTime), so no duration exceeds 240; a record at 09:00 followed by one
\* at 09:45 has duration 45.
C2_GapToNextCappedAt240 ==
    pc = "return" =>
        LET s == sorted_sessions
        IN /\ Len(s) = Len(sessions)
           /\ \A i \in 1..(Len(s) - 1) :
                 /\ MinuteOf[s[i].startTime] <= MinuteOf[s[i + 1].startTime]
                 /\ LET gap == MinuteOf[s[i + 1].startTime] - MinuteOf[s[i].startTime]
                    IN s[i].duration = IF gap < 240 THEN gap ELSE 240
                 /\ (s[i].startTime = T0900 /\ s[i + 1].startTime = T0945)
                        => s[i].duration = 45
           /\ \A i \in 1..Len(s) : s[i].duration <= 240

\* an unsorted list whose sorted gaps are 45 minutes and more than a day
C2_Witness ==
    /\ pc = "return"
    /\ StartTimes(sessions) = <<TMar01, T0945, T0900>>
    /\ StartTimes(sorted_sessions) = <<T0900, T0945, TMar01>>
    /\ Durations(sorted_sessions) = <<45, 240, 30>>

\* C3: for a non-empty list the record returned last is one whose startTime
\* no record exceeds, and its duration is 30, whatever the order of the
\* input and the other start times.
C3_LastSessionGets30 ==
    (pc = "return" /\ sessions # <<>>) =>
        /\ sorted_sessions # <<>>
        /\ LET last == sorted_sessions[Len(sorted_sessions)]
           IN /\ last.duration = 30
              /\ \E i \in 1..Len(sessions) : sessions[i].filename = last.filename
              /\ \A i \in 1..Len(sessions) :
                    MinuteOf[sessions[i].startTime] <= MinuteOf[last.startTime]

\* an unsorted list in which the latest start time occurs twice
C3_Witness ==
    /\ pc = "return"
    /\ StartTimes(sessions) = <<T1300, T0900, T1300>>
    /\ Durations(sorted_sessions) = <<240, 0, 30>>
    /\ sorted_sessions[3].filename = sessions[3].filename

\* C11: whatever the order of the input, every duration returned lies in
\* 0..240, so none is negative; a record followed in the sorted list by one
\* with the same startTime has duration 0.
C11_DurationsNeverNegative ==
    pc = "return" =>
        LET s == sorted_sessions
        IN /\ \A i \in 1..Len(s) : s[i].duration >= 0 /\ s[i].duration <= 240
           /\ \A i \in 1..(Len(s) - 1) :
                 s[i].startTime = s[i + 1].startTime => s[i].duration = 0
           /\ \A i \in 1..(Len(s) - 1) :
                 MinuteOf[s[i + 1].startTime] - MinuteOf[s[i].startTime] >= 0

\* a list given in descending order in which the earliest time occurs twice
C11_Witness ==
    /\ pc = "return"
    /\ StartTimes(sessions) = <<TFeb29, T0900, T0900>>
    /\ StartTimes(sorted_sessions) = <<T0900, T0900, TFeb29>>
    /\ Durations(sorted_sessions) = <<0, 240, 30>>

-----------------------------------------------------------------------------
(* Claims about categorize_session (checked under SpecCat).                *)

\* the text the scores are computed over
CombinedText == lower(title \o <<" ">> \o content)

\* the number of positions of t at which an occurrence of k starts
Occurrences(k, t) ==
    Cardinality({i \in 0..(Len(t) - Len(k)) : \A j \in 1..Len(k) : t[i + j] = k[j]})

KeywordsOf(cat) == Range(categories[cat].keywords)

\* a score that counts occurrences: 3 for each occurrence inside the title
\* and 1 for each other occurrence in the combined text
OccurrenceScore(cat) ==
    SumOver([k \in KeywordsOf(cat) |->
                3 * Occurrences(k, lower(title))
                + (Occurrences(k, CombinedText) - Occurrences(k, lower(title)))],
            KeywordsOf(cat))

\* a score that counts keywords: 3 for each keyword found in the title and
\* 1 for each keyword found only elsewhere in the combined text
PresenceScore(cat) ==
    3 * Cardinality({k \in KeywordsOf(cat) : In(k, lower(title))})
    + Cardinality({k \in KeywordsOf(cat) :
                      In(k, CombinedText) /\ ~In(k, lower(title))})

IsScenario == title = ScenarioTitle /\ content = ScenarioContent

\* C4 (as stated): every occurrence of a keyword counts, 1 point in the
\* combined text and 3 points instead inside the title.
C4_EveryOccurrenceCounts ==
    pc = "return" => \A cat \in CategorySet : scores[cat] = OccurrenceScore(cat)

\* C4 (amended): each keyword of a category that occurs at least once in the
\* lowercased "title content" text counts once, however often it occurs: 3
\* points when it occurs in the lowercased title, else 1 point, never 3+1;
\* the scenario title and content give "plan" (score 10) with "high".
C4_KeywordCountsOnce ==
    pc = "return" =>
        /\ \A cat \in CategorySet : scores[cat] = PresenceScore(cat)
        /\ IsScenario =>
              /\ scores["plan"] = 10
              /\ \A cat \in CategorySet \ {"plan"} : scores[cat] = 0
              /\ result = [category |-> "plan", confidence |-> "high"]

\* a keyword that occurs in the title and twice more in the content has
\* been scored
C4_Witness ==
    /\ pc = "return"
    /\ Occurrences(<<"f", "i", "x">>, lower(title)) = 1
    /\ Occurrences(<<"f", "i", "x">>, CombinedText) = 3
    /\ scores["debug"] = 3

\* the greatest score
TopScore == CHOOSE m \in {scores[cat] : cat \in CategorySet} :
                \A cat \in CategorySet : scores[cat] <= m

\* the position of a category in the enumeration order
Position(cat) == CHOOSE i \in 1..Len(CategoryOrder) : CategoryOrder[i] = cat

\* C5: when some score is positive the returned category has the maximum
\* score, and every category before it in the order plan, codegen, refactor,
\* debug, feature, review, meta, config has a strictly smaller score.
C5_FirstMaximumWins ==
    (pc = "return" /\ TopScore > 0) =>
        /\ result.category \in CategorySet
        /\ scores[result.category] = TopScore
        /\ \A cat \in CategorySet :
              Position(cat) < Position(result.category) => scores[cat] < TopScore

\* two categories share the maximum and the earlier one wins although its
\* keyword comes later in the text
C5_Witness ==
    /\ pc = "return"
    /\ content = <<"f", "i", "x", " ", "a", "d", "d">>
    /\ scores["codegen"] = 1
    /\ scores["debug"] = 1
    /\ TopScore = 1
    /\ result.category = "codegen"

\* C6: a winning score >= 3 gives "high", 1 or 2 gives "medium", and no
\* match at all gives "codegen" with "low"; "low" is returned in no other
\* case.
C6_ConfidenceMapping ==
    pc = "return" =>
        /\ TopScore >= 3 => result.confidence = "high"
        /\ TopScore \in {1, 2} => result.confidence = "medium"
        /\ TopScore = 0 => result = [category |-> "codegen", confidence |-> "low"]
        /\ result.confidence = "low" => (TopScore = 0 /\ result.category = "codegen")

\* the three tiers are each returned: here a winning score of exactly 3
C6_Witness ==
    /\ pc = "return"
    /\ TopScore = 3
    /\ result.confidence = "high"

====
